---- MODULE Spec2Model ----
(***************************************************************************)
(* A model of twisted.issues.repo: the IssueRepository service (issue     *)
(* number allocation, the issue, task and queue dictionaries, the lookup  *)
(* methods) as a state machine, one action per public method.             *)
(*                                                                         *)
(* Spec      : the methods called one after another (the reactor thread). *)
(* SpecConc  : buildTask / reportBug called from two threads, one action  *)
(*             per attribute read or write of the method bodies.          *)
(* SpecPerson: the IssuePerson methods (setNotifier, beginTranscribing,   *)
(*             the five notify methods) on two persons and two notifiers. *)
(* SpecTwo   : the IssueRepository methods on two repository instances.   *)
(***************************************************************************)
EXTENDS Integers, Sequences, FiniteSets, TLC

\* ---------------------------------------------------------------- bounds
MaxIssues == 2      \* issue numbers handed out by the serial specification
MaxQueues == 1      \* buildQueue calls after construction
MaxCalls == 2       \* calls started in the threaded specification
MaxNotes == 2       \* notify / beginTranscribing calls made on the persons
MaxOps == 3         \* state-changing calls made on the two repository instances

\* ---------------------------------------------------------------- inputs
Persons == {"finderA", "fixerB"}
Descriptions == {"disk full", "investigate disk full"}
QueueNames == {"default", "support"}
Omitted == "<omitted>"
Threads == {"t1", "t2"}
None == "None"
Notifiers == {"n1", "n2"}
Texts == {"hello"}
IssueArgs == {"issue1"}
Instances == {"r1", "r2"}

VARIABLES
    currentIssueNumber,   \* self.currentIssueNumber
    issues,               \* self.issues   issueNumber -> issue
    tasks,                \* self.tasks    taskNumber -> task
    queues,               \* self.queues   name -> reference to an IssueQueue
    queueObjs,            \* the IssueQueue objects ever constructed, by reference
    call,                 \* history: the last method called and its arguments
    ret,                  \* history: what that call returned or raised
    returned,             \* history: the entities returned by buildIssue / buildTask
    built,                \* history: name -> the queue the last buildQueue(name) returned
    pc,                   \* threaded: each thread's position in its call
    frame,                \* threaded: each thread's local variables
    obtained,             \* threaded: the numbers the finished calls got
    notifier,             \* person -> self.notifier
    currentlyFinding,     \* person -> self.currentlyFinding
    currentlyFixing,      \* person -> self.currentlyFixing
    received,             \* the calls the notifiers received, in order
    pcall,                \* history: the last IssuePerson method called
    pret,                 \* history: what that call returned or raised
    made,                 \* history: the notify calls made while a notifier was set
    attached,             \* history: person -> the argument of the last setNotifier
    repository,           \* instance -> the attributes of that IssueRepository
    on,                   \* history: the instance the last call was made on
    handed                \* history: instance -> the numbers its calls returned

repoVars == <<currentIssueNumber, issues, tasks, queues, queueObjs>>
histVars == <<call, ret, returned, built>>
thrVars == <<pc, frame, obtained>>
personVars == <<notifier, currentlyFinding, currentlyFixing, received,
                pcall, pret, made, attached>>
twoVars == <<repository, on, handed>>
vars == <<currentIssueNumber, issues, tasks, queues, queueObjs,
          call, ret, returned, built, pc, frame, obtained,
          notifier, currentlyFinding, currentlyFixing, received,
          pcall, pret, made, attached, repository, on, handed>>

\* ------------------------------------------------------- values, results
Ok(v) == [ok |-> TRUE, val |-> v]
KeyError == [ok |-> FALSE, val |-> "KeyError"]

\* d[k] = v of a Python dict
DictSet(d, k, v) == [x \in (DOMAIN d) \cup {k} |-> IF x = k THEN v ELSE d[x]]

\* the numbers the lookups are tried on: 0, every number that can be issued, one more
LookupIds == 0..(MaxIssues + 1)

\* ------------------------------------- collaborators (twisted.issues.issue, .task)
IssueQueue(name) == [name |-> name, issues |-> {}]

InQueue(queue) == [kind |-> "InQueue", queue |-> queue]

PendingFixerAnalysis == [kind |-> "PendingFixerAnalysis"]

Issue(issueFinder, description, initialState, number) ==
    [finder |-> issueFinder, description |-> description,
     state |-> initialState, number |-> number]

Task(issuePerson, description, number) ==
    [person |-> issuePerson, description |-> description, number |-> number]

\* An issue constructed in the InQueue state is put into that state's queue.
EnterState(objs, initialState, number) ==
    IF initialState.kind = "InQueue"
    THEN [objs EXCEPT ![initialState.queue].issues = @ \cup {number}]
    ELSE objs

\* the initial states a caller of buildIssue can pass
InitialStates == {PendingFixerAnalysis} \cup {InQueue(q) : q \in 1..Len(queueObjs)}

\* ------------------------------------------------------------ construction
\* IssuePerson.__init__, for every person
PersonInit ==
    /\ notifier = [p \in Persons |-> None]
    /\ currentlyFinding = [p \in Persons |-> <<>>]
    /\ currentlyFixing = [p \in Persons |-> <<>>]
    /\ received = <<>>
    /\ pcall = [op |-> "__init__", self |-> None]
    /\ pret = Ok(None)
    /\ made = <<>>
    /\ attached = [p \in Persons |-> None]

\* the attributes IssueRepository.__init__ leaves on a new instance
NewRepository ==
    [currentIssueNumber |-> 0,
     issues |-> <<>>,
     tasks |-> <<>>,
     queues |-> [x \in {"default"} |-> 1],
     queueObjs |-> <<IssueQueue("default")>>]

TwoInit ==
    /\ repository = [r \in Instances |-> NewRepository]
    /\ on = None
    /\ handed = [r \in Instances |-> <<>>]

Init ==
    /\ PersonInit
    /\ TwoInit
    /\ currentIssueNumber = 0
    /\ issues = <<>>
    /\ tasks = <<>>
    /\ queueObjs = <<IssueQueue("default")>>
    /\ queues = [x \in {"default"} |-> 1]
    /\ call = [op |-> "__init__", args |-> <<>>]
    /\ ret = Ok(1)
    /\ returned = <<>>
    /\ built = [x \in {"default"} |-> 1]
    /\ pc = [t \in Threads |-> "idle"]
    /\ frame = [t \in Threads |-> <<>>]
    /\ obtained = <<>>


\* ------------------------------------------------------------ getQueue
\* self.queues[name]: the queue, or KeyError
\* variant: a miss falls back to the default queue (dict.get with a default)
getQueue_fallback(name) ==
    IF name \in DOMAIN queues THEN Ok(queues[name]) ELSE Ok(queues["default"])

getQueue(name) ==
    IF name \in DOMAIN queues THEN Ok(queues[name]) ELSE KeyError

GetQueue ==
    \E name \in QueueNames :
        /\ call' = [op |-> "getQueue", args |-> <<name>>]
        /\ ret' = getQueue(name)
        /\ UNCHANGED <<repoVars, returned, built, thrVars, personVars, twoVars>>

\* ------------------------------------------------------------ buildQueue
\* variant: the dictionary is replaced instead of updated
buildQueue_reset(name) ==
    LET q == Len(queueObjs) + 1 IN
    /\ queueObjs' = Append(queueObjs, IssueQueue(name))
    /\ queues' = [x \in {name} |-> q]
    /\ ret' = Ok(q)
    /\ built' = DictSet(built, name, q)
    /\ UNCHANGED <<currentIssueNumber, issues, tasks, returned>>

\* variant: a name already registered keeps its queue (dict.setdefault)
buildQueue_keep(name) ==
    LET q == Len(queueObjs) + 1
        kept == IF name \in DOMAIN queues THEN queues[name] ELSE q
    IN
    /\ queueObjs' = Append(queueObjs, IssueQueue(name))
    /\ queues' = DictSet(queues, name, kept)
    /\ ret' = Ok(kept)
    /\ built' = DictSet(built, name, kept)
    /\ UNCHANGED <<currentIssueNumber, issues, tasks, returned>>

buildQueue(name) ==
    LET q == Len(queueObjs) + 1 IN
    /\ queueObjs' = Append(queueObjs, IssueQueue(name))
    /\ queues' = DictSet(queues, name, q)
    /\ ret' = Ok(q)
    /\ built' = DictSet(built, name, q)
    /\ UNCHANGED <<currentIssueNumber, issues, tasks, returned>>

BuildQueue ==
    \E name \in QueueNames :
        /\ Len(queueObjs) < 1 + MaxQueues
        /\ call' = [op |-> "buildQueue", args |-> <<name>>]
        /\ buildQueue(name)
        /\ UNCHANGED <<thrVars, personVars, twoVars>>

\* ------------------------------------------------------------ getIssueNumber
\* the value getIssueNumber stores in self.currentIssueNumber and returns
\* variant: the counter advances by two
getIssueNumber_skip == currentIssueNumber + 2

\* variant: the number is one more than the number of issues stored
getIssueNumber_count == Cardinality(DOMAIN issues) + 1

getIssueNumber == currentIssueNumber + 1

\* ------------------------------------------------------------ buildIssue
\* variant: the issue is stored in the task dictionary as well
buildIssue_both(issueFinder, description, initialState) ==
    LET n == getIssueNumber
        issue == Issue(issueFinder, description, initialState, n)
    IN
    /\ currentIssueNumber' = n
    /\ queueObjs' = EnterState(queueObjs, initialState, n)
    /\ issues' = DictSet(issues, n, issue)
    /\ tasks' = DictSet(tasks, n, issue)
    /\ ret' = Ok(issue)
    /\ returned' = Append(returned, [kind |-> "issue", entity |-> issue])
    /\ UNCHANGED <<queues, built>>

buildIssue(issueFinder, description, initialState) ==
    LET n == getIssueNumber
        issue == Issue(issueFinder, description, initialState, n)
    IN
    /\ currentIssueNumber' = n
    /\ queueObjs' = EnterState(queueObjs, initialState, n)
    /\ issues' = DictSet(issues, n, issue)
    /\ ret' = Ok(issue)
    /\ returned' = Append(returned, [kind |-> "issue", entity |-> issue])
    /\ UNCHANGED <<tasks, queues, built>>

BuildIssue ==
    \E issueFinder \in Persons, description \in Descriptions,
       initialState \in InitialStates :
        /\ currentIssueNumber < MaxIssues
        /\ call' = [op |-> "buildIssue", args |-> <<>>]
        /\ buildIssue(issueFinder, description, initialState)
        /\ UNCHANGED <<thrVars, personVars, twoVars>>

\* ------------------------------------------------------------ buildTask
\* variant: the task is numbered with the current counter, no new number taken
buildTask_stale(issuePerson, description) ==
    LET n == currentIssueNumber
        t == Task(issuePerson, description, n)
    IN
    /\ currentIssueNumber' = n
    /\ tasks' = DictSet(tasks, n, t)
    /\ ret' = Ok(t)
    /\ returned' = Append(returned, [kind |-> "task", entity |-> t])
    /\ UNCHANGED <<issues, queues, queueObjs, built>>

buildTask(issuePerson, description) ==
    LET n == getIssueNumber
        t == Task(issuePerson, description, n)
    IN
    /\ currentIssueNumber' = n
    /\ tasks' = DictSet(tasks, n, t)
    /\ ret' = Ok(t)
    /\ returned' = Append(returned, [kind |-> "task", entity |-> t])
    /\ UNCHANGED <<issues, queues, queueObjs, built>>

BuildTask ==
    \E issuePerson \in Persons, description \in Descriptions :
        /\ currentIssueNumber < MaxIssues
        /\ call' = [op |-> "buildTask", args |-> <<>>]
        /\ buildTask(issuePerson, description)
        /\ UNCHANGED <<thrVars, personVars, twoVars>>

\* ------------------------------------------------------------ queueIssue
\* The argument InQueue(self.queues[queueName]) is evaluated before buildIssue
\* is entered: a missing queue raises KeyError with nothing done.
\* variant: the number is taken before the queue is looked up
queueIssue_allocFirst(issueFinder, description, queueName) ==
    IF queueName \in DOMAIN queues
    THEN buildIssue(issueFinder, description, InQueue(queues[queueName]))
    ELSE /\ currentIssueNumber' = getIssueNumber
         /\ ret' = KeyError
         /\ UNCHANGED <<issues, tasks, queues, queueObjs, returned, built>>

\* variant: queueName is ignored, the issue goes to the default queue
queueIssue_defaultQueue(issueFinder, description, queueName) ==
    buildIssue(issueFinder, description, InQueue(queues["default"]))

\* variant: the queue is looked up but the issue is built pending analysis
queueIssue_pending(issueFinder, description, queueName) ==
    IF queueName \in DOMAIN queues
    THEN buildIssue(issueFinder, description, PendingFixerAnalysis)
    ELSE /\ ret' = KeyError
         /\ UNCHANGED <<repoVars, returned, built>>

queueIssue(issueFinder, description, queueName) ==
    IF queueName \in DOMAIN queues
    THEN buildIssue(issueFinder, description, InQueue(queues[queueName]))
    ELSE /\ ret' = KeyError
         /\ UNCHANGED <<repoVars, returned, built>>

\* queueName="default" when the caller leaves it out
QueueNameOf(given) == IF given = Omitted THEN "default" ELSE given

QueueIssue ==
    \E issueFinder \in Persons, description \in Descriptions,
       given \in QueueNames \cup {Omitted} :
        /\ currentIssueNumber < MaxIssues
        /\ call' = [op |-> "queueIssue", args |-> <<given>>]
        /\ queueIssue(issueFinder, description, QueueNameOf(given))
        /\ UNCHANGED <<thrVars, personVars, twoVars>>

\* ------------------------------------------------------------ reportBug
\* variant: the report is put into the "support" queue
reportBug_queued(issueFinder, description) ==
    queueIssue(issueFinder, description, "support")

reportBug(issueFinder, description) ==
    buildIssue(issueFinder, description, PendingFixerAnalysis)

ReportBug ==
    \E issueFinder \in Persons, description \in Descriptions :
        /\ currentIssueNumber < MaxIssues
        /\ call' = [op |-> "reportBug", args |-> <<>>]
        /\ reportBug(issueFinder, description)
        /\ UNCHANGED <<thrVars, personVars, twoVars>>

\* ------------------------------------------------------------ loadIssue, loadTask
\* defer.succeed(issue), or defer.fail() on KeyError
loadIssue(issueNumber) ==
    IF issueNumber \in DOMAIN issues THEN Ok(issues[issueNumber]) ELSE KeyError

\* variant: the task lookup reads the issue dictionary
loadTask_issues(taskNumber) ==
    IF taskNumber \in DOMAIN issues THEN Ok(issues[taskNumber]) ELSE KeyError

loadTask(taskNumber) ==
    IF taskNumber \in DOMAIN tasks THEN Ok(tasks[taskNumber]) ELSE KeyError

LoadIssue ==
    \E issueNumber \in LookupIds :
        /\ call' = [op |-> "loadIssue", args |-> <<issueNumber>>]
        /\ ret' = loadIssue(issueNumber)
        /\ UNCHANGED <<repoVars, returned, built, thrVars, personVars, twoVars>>

LoadTask ==
    \E taskNumber \in LookupIds :
        /\ call' = [op |-> "loadTask", args |-> <<taskNumber>>]
        /\ ret' = loadTask(taskNumber)
        /\ UNCHANGED <<repoVars, returned, built, thrVars, personVars, twoVars>>

\* ------------------------------------------------------------ serial specification
Next ==
    \/ GetQueue
    \/ BuildQueue
    \/ BuildIssue
    \/ BuildTask
    \/ QueueIssue
    \/ ReportBug
    \/ LoadIssue
    \/ LoadTask

Spec == Init /\ [][Next]_vars

\* ------------------------------------------------------------ threaded specification
\* reportBug and buildTask called from two threads with no lock held (the class
\* takes none). Each action is one attribute read, attribute write or dict store
\* of getIssueNumber / buildIssue / buildTask.
Started == Len(obtained) + Cardinality({t \in Threads : pc[t] # "idle"})

\* a thread enters reportBug (kind "issue") or buildTask (kind "task")
ThreadCall(t) ==
    \E kind \in {"issue", "task"}, person \in Persons, description \in Descriptions :
        /\ pc[t] = "idle"
        /\ Started < MaxCalls
        /\ frame' = [frame EXCEPT ![t] = [kind |-> kind, person |-> person,
                                          description |-> description,
                                          tmp |-> 0, n |-> 0]]
        /\ pc' = [pc EXCEPT ![t] = "load"]
        /\ UNCHANGED <<repoVars, histVars, personVars, twoVars, obtained>>

\* getIssueNumber: the read of self.currentIssueNumber on the right of the assignment
ThreadLoad(t) ==
    /\ pc[t] = "load"
    /\ frame' = [frame EXCEPT ![t].tmp = currentIssueNumber]
    /\ pc' = [pc EXCEPT ![t] = "store"]
    /\ UNCHANGED <<repoVars, histVars, personVars, twoVars, obtained>>

\* getIssueNumber: the store of the sum into self.currentIssueNumber
ThreadStore(t) ==
    /\ pc[t] = "store"
    /\ currentIssueNumber' = frame[t].tmp + 1
    /\ pc' = [pc EXCEPT ![t] = "return"]
    /\ UNCHANGED <<issues, tasks, queues, queueObjs, histVars, personVars, twoVars, frame, obtained>>

\* getIssueNumber: return self.currentIssueNumber, a second read of the attribute
ThreadReturn(t) ==
    /\ pc[t] = "return"
    /\ frame' = [frame EXCEPT ![t].n = currentIssueNumber]
    /\ pc' = [pc EXCEPT ![t] = "insert"]
    /\ UNCHANGED <<repoVars, histVars, personVars, twoVars, obtained>>

\* buildIssue / buildTask: self.issues[n] = issue, self.tasks[n] = t, and the return
ThreadInsert(t) ==
    LET f == frame[t] IN
    /\ pc[t] = "insert"
    /\ IF f.kind = "issue"
       THEN /\ issues' = DictSet(issues, f.n,
                            Issue(f.person, f.description, PendingFixerAnalysis, f.n))
            /\ tasks' = tasks
       ELSE /\ tasks' = DictSet(tasks, f.n, Task(f.person, f.description, f.n))
            /\ issues' = issues
    /\ obtained' = Append(obtained, [thread |-> t, kind |-> f.kind, number |-> f.n])
    /\ frame' = [frame EXCEPT ![t] = <<>>]
    /\ pc' = [pc EXCEPT ![t] = "idle"]
    /\ UNCHANGED <<currentIssueNumber, queues, queueObjs, histVars, personVars, twoVars>>

NextConc ==
    \E t \in Threads :
        \/ ThreadCall(t)
        \/ ThreadLoad(t)
        \/ ThreadStore(t)
        \/ ThreadReturn(t)
        \/ ThreadInsert(t)

SpecConc == Init /\ [][NextConc]_vars

\* ============================================================ claims

\* C2: when buildIssue / buildTask calls run concurrently, no two of them obtain
\* the same number, and once all of them have returned no number was skipped:
\* the numbers obtained are exactly 1..(number of calls).
C2_AtomicAllocation ==
    /\ \A i, j \in 1..Len(obtained) :
           i # j => obtained[i].number # obtained[j].number
    /\ (\A t \in Threads : pc[t] = "idle") =>
           {obtained[i].number : i \in 1..Len(obtained)} = 1..Len(obtained)

\* ------------------------------------------------------------ C1
\* C1: starting from a fresh repository and calling buildIssue, queueIssue,
\* reportBug and buildTask in any mix, the k-th call that succeeds returns the
\* entity numbered k: the numbers returned are 1..N, no repeats, no gaps.
C1_SequentialIds ==
    /\ \A k \in 1..Len(returned) : returned[k].entity.number = k
    /\ {returned[k].entity.number : k \in 1..Len(returned)} = 1..Len(returned)

C1_Witness ==
    /\ Len(returned) = 2
    /\ returned[1].kind = "task"
    /\ returned[2].kind = "issue"
    /\ call.op = "queueIssue"
    /\ ret.ok

\* ------------------------------------------------------------ C3
\* C3: the keys of self.issues and of self.tasks are disjoint, so no number is
\* found by both loadIssue and loadTask: loadIssue fails on a number given to a
\* task and loadTask fails on a number given to an issue.
C3_DisjointKeys ==
    /\ (DOMAIN issues) \cap (DOMAIN tasks) = {}
    /\ \A id \in LookupIds : ~(loadIssue(id).ok /\ loadTask(id).ok)
    /\ \A k \in 1..Len(returned) :
           LET r == returned[k] IN
           /\ r.kind = "task" => loadIssue(r.entity.number) = KeyError
           /\ r.kind = "issue" => loadTask(r.entity.number) = KeyError

C3_Witness ==
    /\ call.op = "loadIssue"
    /\ call.args[1] \in DOMAIN tasks
    /\ ~ret.ok
    /\ DOMAIN issues # {}

\* ------------------------------------------------------------ C4
\* C4: after any sequence of operations loadIssue(n), for n returned by
\* buildIssue, succeeds with exactly the issue that was returned, loadTask(n),
\* for n returned by buildTask, succeeds with exactly that task, and for every
\* number never issued (0 and numbers above the counter included) both lookups
\* fail and carry no entity.
C4_Lookup ==
    LET issuedNumbers == {returned[k].entity.number : k \in 1..Len(returned)} IN
    /\ \A k \in 1..Len(returned) :
           LET r == returned[k] IN
           /\ r.kind = "issue" => loadIssue(r.entity.number) = Ok(r.entity)
           /\ r.kind = "task" => loadTask(r.entity.number) = Ok(r.entity)
    /\ \A id \in LookupIds \ issuedNumbers :
           /\ loadIssue(id) = KeyError
           /\ loadTask(id) = KeyError

C4_Witness ==
    /\ call.op = "loadTask"
    /\ call.args[1] = 1
    /\ ret.ok
    /\ ret.val = returned[1].entity
    /\ currentIssueNumber = 2

\* ------------------------------------------------------------ C5
\* C5: a freshly constructed repository has exactly one queue, "default",
\* counter 0 and no issues or tasks; and in every reachable state a queue is
\* registered under "default".
C5_DefaultQueue ==
    /\ getQueue("default").ok
    /\ call.op = "__init__" =>
           /\ DOMAIN queues = {"default"}
           /\ Len(queueObjs) = 1
           /\ currentIssueNumber = 0
           /\ DOMAIN issues = {}
           /\ DOMAIN tasks = {}

C5_Witness ==
    /\ Len(queueObjs) = 2
    /\ "support" \in DOMAIN queues
    /\ currentIssueNumber >= 1
    /\ call.op = "getQueue"
    /\ call.args[1] = "default"

\* ------------------------------------------------------------ C6
\* C6: getQueue(name) after buildQueue(name), with no later buildQueue of that
\* name, returns the queue that buildQueue returned; getQueue of a name no
\* queue was ever registered under fails (KeyError, the NotFound failure), and
\* that failed call changes nothing in the repository.
C6_State ==
    \A name \in QueueNames :
        IF name \in DOMAIN built
        THEN getQueue(name) = Ok(built[name])
        ELSE getQueue(name) = KeyError

C6_Step ==
    (call'.op = "getQueue" /\ call'.args[1] \notin DOMAIN built) =>
        /\ ret' = KeyError
        /\ UNCHANGED repoVars

\* C6: the registered queue is what getQueue returns in every state, and a
\* getQueue miss is a KeyError that leaves the repository as it was.
C6_GetQueue == [](C6_State) /\ [][C6_Step]_vars

C6_Witness ==
    /\ call.op = "getQueue"
    /\ call.args[1] = "default"
    /\ ret = Ok(2)
    /\ built["default"] = 2
    /\ "support" \notin DOMAIN built

\* ------------------------------------------------------------ C7
\* C7: queueIssue with a queueName that is not registered fails (KeyError) and
\* takes no number: counter, issues, tasks and queues are unchanged by the
\* failed call, so the next number handed out is the one it would have been.
C7_Step ==
    LET given == call'.args[1]
        name == IF given = Omitted THEN "default" ELSE given
    IN
    (call'.op = "queueIssue" /\ name \notin DOMAIN queues) =>
        /\ ret' = KeyError
        /\ currentIssueNumber' = currentIssueNumber
        /\ issues' = issues
        /\ tasks' = tasks
        /\ queues' = queues
        /\ queueObjs' = queueObjs
        /\ returned' = returned
        /\ getIssueNumber' = getIssueNumber

\* C7: every queueIssue step on an unregistered name fails and changes nothing.
C7_FailedQueueIssue == [][C7_Step]_vars

C7_Witness ==
    /\ call.op = "queueIssue"
    /\ call.args[1] = "support"
    /\ ret = KeyError
    /\ currentIssueNumber = 1
    /\ Len(returned) = 1

\* ------------------------------------------------------------ C8
\* C8: queueIssue with a registered queueName ("default" when left out)
\* succeeds, stores exactly one new issue under a number not used before, and
\* returns that issue, whose initial state is InQueue of the queue registered
\* under queueName when the call was made.
C8_Step ==
    LET given == call'.args[1]
        name == IF given = Omitted THEN "default" ELSE given
    IN
    (call'.op = "queueIssue" /\ name \in DOMAIN queues) =>
        /\ ret'.ok
        /\ LET issue == ret'.val IN
           /\ issue.number \notin (DOMAIN issues) \cup (DOMAIN tasks)
           /\ issue.number \notin 1..currentIssueNumber
           /\ DOMAIN issues' = (DOMAIN issues) \cup {issue.number}
           /\ issues'[issue.number] = issue
           /\ \A k \in DOMAIN issues : issues'[k] = issues[k]
           /\ tasks' = tasks
           /\ issue.state = InQueue(queues[name])

\* C8: every queueIssue step on a registered name stores and returns one new
\* issue in the InQueue state of that name's queue.
C8_QueueIssue == [][C8_Step]_vars

C8_Witness ==
    /\ call.op = "queueIssue"
    /\ call.args[1] = "support"
    /\ ret.ok
    /\ ret.val.state = InQueue(2)
    /\ ret.val.number = 2

\* ------------------------------------------------------------ C9
\* C9: after a successful queueIssue the queue registered under queueName
\* contains the new issue (on a fresh repository, queueIssue with no queue
\* name puts issue 1 into the queue "default").
C9_QueueContains ==
    LET given == call.args[1]
        name == IF given = Omitted THEN "default" ELSE given
    IN
    (call.op = "queueIssue" /\ ret.ok) =>
        /\ name \in DOMAIN queues
        /\ ret.val.number \in queueObjs[queues[name]].issues

C9_Witness ==
    /\ call.op = "queueIssue"
    /\ call.args[1] = Omitted
    /\ ret.ok
    /\ ret.val.number = 1
    /\ 1 \in queueObjs[queues["default"]].issues

\* ------------------------------------------------------------ C10
\* C10: reportBug succeeds in every reachable state, whatever queues exist: it
\* never fails, and returns a stored issue whose initial state is
\* PendingFixerAnalysis, with no queue holding it.
C10_ReportBug ==
    call.op = "reportBug" =>
        /\ ret.ok
        /\ ret.val.state = PendingFixerAnalysis
        /\ ret.val.number \in DOMAIN issues
        /\ issues[ret.val.number] = ret.val
        /\ \A q \in 1..Len(queueObjs) : ret.val.number \notin queueObjs[q].issues

C10_Witness ==
    /\ call.op = "reportBug"
    /\ ret.ok
    /\ ret.val.number = 2
    /\ Len(queueObjs) = 2
    /\ queues["default"] = 2

\* ------------------------------------------------------------ C16
C16_Step ==
    LET name == call'.args[1] IN
    call'.op = "buildQueue" =>
        /\ ret'.ok
        /\ LET q == ret'.val IN
           /\ q \notin 1..Len(queueObjs)
           /\ q \in 1..Len(queueObjs')
           /\ queueObjs'[q] = IssueQueue(name)
           /\ \A nm \in QueueNames : nm = name => getQueue(nm)' = Ok(q)
           /\ DOMAIN queues' = (DOMAIN queues) \cup {name}
           /\ \A other \in (DOMAIN queues) \ {name} : queues'[other] = queues[other]
           /\ UNCHANGED <<currentIssueNumber, issues, tasks>>
           /\ \A i \in 1..Len(queueObjs) : queueObjs'[i] = queueObjs[i]
           /\ name \in DOMAIN queues =>
                  /\ q # queues[name]
                  /\ \A nm \in QueueNames : getQueue(nm)' # Ok(queues[name])

\* C16: buildQueue(name) never fails; when a queue is registered under name it
\* registers a new empty queue in its place (getQueue(name) then gives the new
\* one), leaves the other names' queues, the issues, the tasks and the counter
\* unchanged, and an issue queued earlier still refers to the old queue object,
\* which getQueue no longer gives for any name.
C16_BuildQueue == [][C16_Step]_vars

C16_Witness ==
    /\ call.op = "buildQueue"
    /\ call.args[1] = "default"
    /\ queues["default"] = 2
    /\ 1 \in DOMAIN issues
    /\ issues[1].state = InQueue(1)
    /\ 1 \in queueObjs[1].issues
    /\ queueObjs[2].issues = {}

\* ------------------------------------------------------------ C17
C17_Step ==
    /\ \A n \in DOMAIN issues :
           /\ n \in DOMAIN issues'
           /\ issues'[n] = issues[n]
           /\ loadIssue(n)' = loadIssue(n)
    /\ \A n \in DOMAIN tasks :
           /\ n \in DOMAIN tasks'
           /\ tasks'[n] = tasks[n]
           /\ loadTask(n)' = loadTask(n)
    /\ currentIssueNumber' >= currentIssueNumber

\* C17: entities are never removed or replaced: a number stored in self.issues
\* (or self.tasks) maps to the same entity in every later state, so a lookup
\* that succeeded keeps succeeding with the same entity; the counter never
\* decreases.
C17_Permanent == [][C17_Step]_vars

C17_Witness ==
    /\ DOMAIN tasks = {1, 2}
    /\ tasks[1].person # tasks[2].person
    /\ call.op = "loadTask"
    /\ call.args[1] = 1
    /\ ret = Ok(tasks[1])

\* ------------------------------------------------------------ C18
C18_Step ==
    LET n == currentIssueNumber' IN
    /\ call'.op = "buildIssue" =>
           /\ n = currentIssueNumber + 1
           /\ n \notin DOMAIN issues
           /\ DOMAIN issues' = (DOMAIN issues) \cup {n}
           /\ ret' = Ok(issues'[n])
           /\ \A k \in DOMAIN issues : issues'[k] = issues[k]
           /\ tasks' = tasks
           /\ queues' = queues
    /\ call'.op = "buildTask" =>
           /\ n = currentIssueNumber + 1
           /\ n \notin DOMAIN tasks
           /\ DOMAIN tasks' = (DOMAIN tasks) \cup {n}
           /\ ret' = Ok(tasks'[n])
           /\ \A k \in DOMAIN tasks : tasks'[k] = tasks[k]
           /\ issues' = issues
           /\ queues' = queues

\* C18: buildIssue adds exactly one entry to self.issues, under the new counter
\* value, and advances the counter by exactly 1, leaving self.tasks,
\* self.queues and the issues already stored unchanged; buildTask does the same
\* with self.tasks, leaving self.issues and self.queues unchanged.
C18_Frame == [][C18_Step]_vars

C18_Witness ==
    /\ call.op = "buildIssue"
    /\ ret.ok
    /\ ret.val.number = 2
    /\ DOMAIN issues = {2}
    /\ DOMAIN tasks = {1}

\* ------------------------------------------------------------ C19
C19_State ==
    /\ (DOMAIN issues) \cup (DOMAIN tasks) = 1..currentIssueNumber
    /\ \A k \in DOMAIN issues : issues[k].number = k
    /\ \A k \in DOMAIN tasks : tasks[k].number = k

C19_Step ==
    call'.op \in {"getQueue", "loadIssue", "loadTask"} =>
        UNCHANGED <<currentIssueNumber, issues, tasks, queues>>

CouldNotNotify == [ok |-> FALSE, val |-> "CouldNotNotify"]
CouldNotTranscribe == [ok |-> FALSE, val |-> "CouldNotTranscribe"]
AttributeError == [ok |-> FALSE, val |-> "AttributeError"]

\* "if self.notifier": None is false, a notifier object is true
Truthy(v) == v # None

\* ------------------------------------------------------------ IIssueNotifier
\* One call received by a notifier, and whether the notifier raised: notifyText
\* raises CouldNotNotify when the user is not available, beginTranscribing raises
\* CouldNotTranscribe when it cannot track the two; the other four return None.
NotifierCall(n, method, args, raised) ==
    [notifier |-> n, method |-> method, args |-> args, raised |-> raised]

Transcript(n, otherNotifier) == [transcript |-> <<n, otherNotifier>>]

\* what the notifier's method gave back to its caller
NotifierResult(c) ==
    IF c.method = "beginTranscribing"
    THEN IF c.raised THEN CouldNotTranscribe ELSE Ok(Transcript(c.notifier, c.args[1]))
    ELSE IF c.method = "notifyText" /\ c.raised THEN CouldNotNotify ELSE Ok(None)

\* the ways a notifier's method can end
Raises(method) ==
    IF method \in {"beginTranscribing", "notifyText"} THEN BOOLEAN ELSE {FALSE}

personFrame == <<currentlyFinding, currentlyFixing>>

\* ------------------------------------------------------------ setNotifier
\* variant: a notifier already set is kept
setNotifier_keep(self, newNotifier) ==
    /\ notifier' = [notifier EXCEPT ![self] =
                       IF Truthy(notifier[self]) THEN notifier[self] ELSE newNotifier]
    /\ pret' = Ok(None)
    /\ UNCHANGED <<received, personFrame>>

setNotifier(self, newNotifier) ==
    /\ notifier' = [notifier EXCEPT ![self] = newNotifier]
    /\ pret' = Ok(None)
    /\ UNCHANGED <<received, personFrame>>

\* ------------------------------------------------------------ beginTranscribing
\* variant: the other person is passed on, not the other person's notifier
beginTranscribing_person(self, otherPerson) ==
    IF Truthy(notifier[self]) /\ Truthy(notifier[otherPerson])
    THEN \E raised \in Raises("beginTranscribing") :
            LET c == NotifierCall(notifier[self], "beginTranscribing",
                                  <<otherPerson>>, raised) IN
            /\ received' = Append(received, c)
            /\ pret' = NotifierResult(c)
            /\ UNCHANGED <<notifier, personFrame>>
    ELSE /\ pret' = CouldNotTranscribe
         /\ UNCHANGED <<notifier, received, personFrame>>

beginTranscribing(self, otherPerson) ==
    IF Truthy(notifier[self]) /\ Truthy(notifier[otherPerson])
    THEN \E raised \in Raises("beginTranscribing") :
            LET c == NotifierCall(notifier[self], "beginTranscribing",
                                  <<notifier[otherPerson]>>, raised) IN
            /\ received' = Append(received, c)
            /\ pret' = NotifierResult(c)
            /\ UNCHANGED <<notifier, personFrame>>
    ELSE /\ pret' = CouldNotTranscribe
         /\ UNCHANGED <<notifier, received, personFrame>>

\* ------------------------------------------------------------ the notify methods
\* "if self.notifier: self.notifier.<method>(<args>)": the body of all five
forward(self, method, args) ==
    IF Truthy(notifier[self])
    THEN \E raised \in Raises(method) :
            LET c == NotifierCall(notifier[self], method, args, raised) IN
            /\ received' = Append(received, c)
            /\ pret' = NotifierResult(c)
            /\ UNCHANGED <<notifier, personFrame>>
    ELSE /\ pret' = Ok(None)
         /\ UNCHANGED <<notifier, received, personFrame>>

\* variant: CouldNotNotify is caught and dropped
notifyText_swallow(self, text) ==
    IF Truthy(notifier[self])
    THEN \E raised \in Raises("notifyText") :
            /\ received' = Append(received,
                               NotifierCall(notifier[self], "notifyText", <<text>>, raised))
            /\ pret' = Ok(None)
            /\ UNCHANGED <<notifier, personFrame>>
    ELSE /\ pret' = Ok(None)
         /\ UNCHANGED <<notifier, received, personFrame>>

notifyText(self, text) == forward(self, "notifyText", <<text>>)

notifyFixerReady(self, issueFixer, issue) ==
    forward(self, "notifyFixerReady", <<issueFixer, issue>>)

\* variant: the finder's notice is sent as the fixer's
notifyFinderReady_asFixer(self, issueFinder, issue) ==
    forward(self, "notifyFixerReady", <<issueFinder, issue>>)

notifyFinderReady(self, issueFinder, issue) ==
    forward(self, "notifyFinderReady", <<issueFinder, issue>>)

notifyFinderGone(self, issueFinder, issue) ==
    forward(self, "notifyFinderGone", <<issueFinder, issue>>)

\* variant: the method is called on self.notifier without the test
notifyFixerGone_unguarded(self, issueFixer, issue) ==
    IF Truthy(notifier[self])
    THEN forward(self, "notifyFixerGone", <<issueFixer, issue>>)
    ELSE /\ pret' = AttributeError
         /\ UNCHANGED <<notifier, received, personFrame>>

notifyFixerGone(self, issueFixer, issue) ==
    forward(self, "notifyFixerGone", <<issueFixer, issue>>)

\* ------------------------------------------------------------ person specification
notSerial == <<repoVars, histVars, thrVars, twoVars>>

\* history of a notify call: it is recorded when a notifier is set at the call
Made(self, method, args) ==
    IF notifier[self] # None
    THEN Append(made, [notifier |-> notifier[self], method |-> method, args |-> args])
    ELSE made

SetNotifier ==
    \E self \in Persons, newNotifier \in Notifiers \cup {None} :
        /\ pcall' = [op |-> "setNotifier", self |-> self, args |-> <<newNotifier>>]
        /\ setNotifier(self, newNotifier)
        /\ attached' = [attached EXCEPT ![self] = newNotifier]
        /\ UNCHANGED <<made, notSerial>>

BeginTranscribing ==
    \E self \in Persons, otherPerson \in Persons :
        /\ Len(received) < MaxNotes
        /\ pcall' = [op |-> "beginTranscribing", self |-> self, args |-> <<otherPerson>>]
        /\ beginTranscribing(self, otherPerson)
        /\ UNCHANGED <<made, attached, notSerial>>

NotifyText ==
    \E self \in Persons, text \in Texts :
        /\ Len(received) < MaxNotes
        /\ pcall' = [op |-> "notifyText", self |-> self, args |-> <<text>>]
        /\ notifyText(self, text)
        /\ made' = Made(self, "notifyText", <<text>>)
        /\ UNCHANGED <<attached, notSerial>>

NotifyFixerReady ==
    \E self \in Persons, issueFixer \in Persons, issue \in IssueArgs :
        /\ Len(received) < MaxNotes
        /\ pcall' = [op |-> "notifyFixerReady", self |-> self, args |-> <<issueFixer, issue>>]
        /\ notifyFixerReady(self, issueFixer, issue)
        /\ made' = Made(self, "notifyFixerReady", <<issueFixer, issue>>)
        /\ UNCHANGED <<attached, notSerial>>

NotifyFinderReady ==
    \E self \in Persons, issueFinder \in Persons, issue \in IssueArgs :
        /\ Len(received) < MaxNotes
        /\ pcall' = [op |-> "notifyFinderReady", self |-> self, args |-> <<issueFinder, issue>>]
        /\ notifyFinderReady(self, issueFinder, issue)
        /\ made' = Made(self, "notifyFinderReady", <<issueFinder, issue>>)
        /\ UNCHANGED <<attached, notSerial>>

NotifyFinderGone ==
    \E self \in Persons, issueFinder \in Persons, issue \in IssueArgs :
        /\ Len(received) < MaxNotes
        /\ pcall' = [op |-> "notifyFinderGone", self |-> self, args |-> <<issueFinder, issue>>]
        /\ notifyFinderGone(self, issueFinder, issue)
        /\ made' = Made(self, "notifyFinderGone", <<issueFinder, issue>>)
        /\ UNCHANGED <<attached, notSerial>>

NotifyFixerGone ==
    \E self \in Persons, issueFixer \in Persons, issue \in IssueArgs :
        /\ Len(received) < MaxNotes
        /\ pcall' = [op |-> "notifyFixerGone", self |-> self, args |-> <<issueFixer, issue>>]
        /\ notifyFixerGone(self, issueFixer, issue)
        /\ made' = Made(self, "notifyFixerGone", <<issueFixer, issue>>)
        /\ UNCHANGED <<attached, notSerial>>

NextPerson ==
    \/ SetNotifier
    \/ BeginTranscribing
    \/ NotifyText
    \/ NotifyFixerReady
    \/ NotifyFinderReady
    \/ NotifyFinderGone
    \/ NotifyFixerGone

SpecPerson == Init /\ [][NextPerson]_vars

\* ------------------------------------------------------------ C11
NotifyMethods ==
    {"notifyText", "notifyFixerReady", "notifyFinderReady",
     "notifyFinderGone", "notifyFixerGone"}

C11_Step ==
    LET self == pcall'.self IN
    /\ (pcall'.op \in NotifyMethods /\ notifier[self] = None) =>
           /\ pret' = Ok(None)
           /\ received' = received
           /\ UNCHANGED <<notifier, currentlyFinding, currentlyFixing>>
    /\ (pcall'.op = "beginTranscribing" /\ notifier[self] = None) =>
           /\ pret' = CouldNotTranscribe
           /\ received' = received
           /\ UNCHANGED <<notifier, currentlyFinding, currentlyFixing>>

\* C11: on a person whose notifier is None, notifyText and the four lifecycle
\* notifications return without failure, call no notifier method and leave the
\* person unchanged; beginTranscribing raises CouldNotTranscribe whatever the
\* other person's notifier is; no other error is produced.
C11_NoNotifier == [][C11_Step]_vars

C11_Witness ==
    /\ pcall.op = "beginTranscribing"
    /\ notifier[pcall.self] = None
    /\ notifier[pcall.args[1]] # None
    /\ pret = CouldNotTranscribe
    /\ Len(received) = 1

\* ------------------------------------------------------------ C12
C12_Step ==
    LET a == pcall'.self
        b == pcall'.args[1]
    IN
    pcall'.op = "beginTranscribing" =>
        IF notifier[a] # None /\ notifier[b] # None
        THEN /\ Len(received') = Len(received) + 1
             /\ SubSeq(received', 1, Len(received)) = received
             /\ LET c == received'[Len(received')] IN
                /\ c.notifier = notifier[a]
                /\ c.method = "beginTranscribing"
                /\ c.args = <<notifier[b]>>
                /\ pret' = NotifierResult(c)
        ELSE /\ pret' = CouldNotTranscribe
             /\ received' = received

\* C12: a.beginTranscribing(b) with both notifiers set makes exactly one
\* beginTranscribing call, on a's notifier with b's notifier as argument, and
\* returns or raises what that call did; with one or both notifiers missing it
\* raises CouldNotTranscribe and calls no notifier method.
C12_BeginTranscribing == [][C12_Step]_vars

C12_Witness ==
    /\ pcall.op = "beginTranscribing"
    /\ pcall.self = "finderA"
    /\ pcall.args[1] = "fixerB"
    /\ pret = Ok(Transcript("n1", "n2"))

\* ------------------------------------------------------------ C13
C13_Step ==
    LET self == pcall'.self IN
    pcall'.op = "notifyText" =>
        IF notifier[self] # None
        THEN /\ Len(received') = Len(received) + 1
             /\ LET c == received'[Len(received')] IN
                /\ c.raised => pret' = CouldNotNotify
                /\ ~c.raised => pret' = Ok(None)
        ELSE pret' = Ok(None)

\* C13: notifyText on a person whose notifier raises CouldNotNotify (the user is
\* not available) raises CouldNotNotify to its caller; notifyText on a person
\* with no notifier returns without failure.
C13_NotifyText == [][C13_Step]_vars

C13_Witness ==
    /\ pcall.op = "notifyText"
    /\ pret = CouldNotNotify
    /\ received[Len(received)].raised

\* ------------------------------------------------------------ C14
Notifications ==
    LET isNote(c) == c.method \in NotifyMethods
        r == SelectSeq(received, isNote)
    IN [i \in 1..Len(r) |->
           [notifier |-> r[i].notifier, method |-> r[i].method, args |-> r[i].args]]

\* C14: the notifications the notifiers received are exactly the notify calls
\* made while a notifier was set, each once, same method, same arguments, same
\* order; a call made while no notifier was set is never delivered, also not
\* after a later setNotifier.
C14_OneShot == Notifications = made

C14_Witness ==
    /\ Len(made) = 1
    /\ made[1].method = "notifyFinderReady"
    /\ Notifications = made
    /\ pcall.op = "notifyFixerGone"
    /\ notifier[pcall.self] = None
    /\ pret = Ok(None)

\* ------------------------------------------------------------ C15
C15_State == \A p \in Persons : notifier[p] = attached[p]

C15_Step ==
    LET self == pcall'.self IN
    (pcall'.op \in NotifyMethods \cup {"beginTranscribing"}) =>
        /\ \A i \in (Len(received) + 1)..Len(received') :
               /\ attached[self] # None
               /\ received'[i].notifier = attached[self]
        /\ attached[self] = None =>
               /\ received' = received
               /\ pcall'.op = "beginTranscribing" => pret' = CouldNotTranscribe
        /\ (attached[self] # None /\ pcall'.op \in NotifyMethods) =>
               Len(received') = Len(received) + 1

\* C15: setNotifier is last-write-wins: every later notification and
\* beginTranscribing of the person goes to the notifier set last and to no
\* other, and setting None brings back the behaviour without a notifier.
C15_LastWriteWins == [](C15_State) /\ [][C15_Step]_vars

C15_Witness ==
    /\ Len(received) = 2
    /\ received[1].notifier = "n1"
    /\ received[2].notifier = "n2"
    /\ attached["finderA"] = "n2"
    /\ attached["fixerB"] = None
    /\ pcall.op = "notifyText"
    /\ pcall.self = "finderA"

\* ============================================================ two instances
\* The IssueRepository methods with self made explicit: repository[self] holds
\* the attributes __init__ set on that instance.
notTwo == <<repoVars, histVars, thrVars, personVars>>

\* the state-changing calls made so far on one instance, and on both
OpsOn(r) ==
    repository[r].currentIssueNumber + (Len(repository[r].queueObjs) - 1)

OpsDone == OpsOn("r1") + OpsOn("r2")

buildQueueOn(self, name) ==
    LET me == repository[self]
        q == Len(me.queueObjs) + 1
    IN
    /\ repository' = [repository EXCEPT ![self] =
                         [me EXCEPT !.queueObjs = Append(me.queueObjs, IssueQueue(name)),
                                    !.queues = DictSet(me.queues, name, q)]]
    /\ handed' = handed

getIssueNumberOn(self) == repository[self].currentIssueNumber + 1

buildIssueOn(self, issueFinder, description, initialState) ==
    LET me == repository[self]
        n == getIssueNumberOn(self)
        issue == Issue(issueFinder, description, initialState, n)
    IN
    /\ repository' = [repository EXCEPT ![self] =
                         [me EXCEPT !.currentIssueNumber = n,
                                    !.queueObjs = EnterState(me.queueObjs, initialState, n),
                                    !.issues = DictSet(me.issues, n, issue)]]
    /\ handed' = [handed EXCEPT ![self] = Append(@, n)]

\* variant: the counter is an attribute of the class, shared by the instances
buildTaskOn_classCounter(self, issuePerson, description) ==
    LET me == repository[self]
        n == getIssueNumberOn(self)
        t == Task(issuePerson, description, n)
    IN
    /\ repository' = [r \in Instances |->
                         IF r = self
                         THEN [me EXCEPT !.currentIssueNumber = n,
                                         !.tasks = DictSet(me.tasks, n, t)]
                         ELSE [repository[r] EXCEPT !.currentIssueNumber = n]]
    /\ handed' = [handed EXCEPT ![self] = Append(@, n)]

buildTaskOn(self, issuePerson, description) ==
    LET me == repository[self]
        n == getIssueNumberOn(self)
        t == Task(issuePerson, description, n)
    IN
    /\ repository' = [repository EXCEPT ![self] =
                         [me EXCEPT !.currentIssueNumber = n,
                                    !.tasks = DictSet(me.tasks, n, t)]]
    /\ handed' = [handed EXCEPT ![self] = Append(@, n)]

queueIssueOn(self, issueFinder, description, queueName) ==
    IF queueName \in DOMAIN repository[self].queues
    THEN buildIssueOn(self, issueFinder, description,
                      InQueue(repository[self].queues[queueName]))
    ELSE UNCHANGED <<repository, handed>>

reportBugOn(self, issueFinder, description) ==
    buildIssueOn(self, issueFinder, description, PendingFixerAnalysis)

TwoBuildQueue ==
    \E self \in Instances, name \in QueueNames :
        /\ OpsDone < MaxOps
        /\ buildQueueOn(self, name)
        /\ on' = self
        /\ UNCHANGED notTwo

TwoBuildIssue ==
    \E self \in Instances, issueFinder \in Persons, description \in Descriptions :
        \E initialState \in {PendingFixerAnalysis}
               \cup {InQueue(q) : q \in 1..Len(repository[self].queueObjs)} :
            /\ OpsDone < MaxOps
            /\ buildIssueOn(self, issueFinder, description, initialState)
            /\ on' = self
            /\ UNCHANGED notTwo

TwoBuildTask ==
    \E self \in Instances, issuePerson \in Persons, description \in Descriptions :
        /\ OpsDone < MaxOps
        /\ buildTaskOn(self, issuePerson, description)
        /\ on' = self
        /\ UNCHANGED notTwo

TwoQueueIssue ==
    \E self \in Instances, issueFinder \in Persons, description \in Descriptions,
       given \in QueueNames \cup {Omitted} :
        /\ OpsDone < MaxOps
        /\ queueIssueOn(self, issueFinder, description, QueueNameOf(given))
        /\ on' = self
        /\ UNCHANGED notTwo

TwoReportBug ==
    \E self \in Instances, issueFinder \in Persons, description \in Descriptions :
        /\ OpsDone < MaxOps
        /\ reportBugOn(self, issueFinder, description)
        /\ on' = self
        /\ UNCHANGED notTwo

\* getQueue, loadIssue, loadTask on one instance: they read self.queues,
\* self.issues, self.tasks and assign nothing
TwoLookup ==
    \E self \in Instances :
        /\ on' = self
        /\ UNCHANGED <<repository, handed, notTwo>>

NextTwo ==
    \/ TwoBuildQueue
    \/ TwoBuildIssue
    \/ TwoBuildTask
    \/ TwoQueueIssue
    \/ TwoReportBug
    \/ TwoLookup

SpecTwo == Init /\ [][NextTwo]_vars

\* ------------------------------------------------------------ C20
C20_State ==
    \A r \in Instances :
        /\ \A k \in 1..Len(handed[r]) : handed[r][k] = k
        /\ Len(handed[r]) = repository[r].currentIssueNumber

C20_Step ==
    \A r \in Instances : on' # r => repository'[r] = repository[r]

\* C20: two repository instances are independent: a call on one instance leaves
\* the other instance's counter, issues, tasks and queues unchanged, so each
\* instance hands out 1, 2, 3, ... on its own however the calls are interleaved.
C20_Independent == [](C20_State) /\ [][C20_Step]_vars

C20_Witness ==
    /\ handed["r1"] = <<1, 2>>
    /\ handed["r2"] = <<1>>
    /\ on = "r2"
    /\ DOMAIN repository["r1"].tasks = {1}
    /\ DOMAIN repository["r2"].tasks = {}

====
